---------------------------- MODULE Spec2Model ----------------------------
(***************************************************************************)
(* Model of FA-pdf-sum/function_app.py: the blob-triggered run             *)
(* func_app_doc_summary over the Cosmos DB records of one file name.       *)
(* Texts are sequences of one-character strings; a Python dict is a record *)
(* with a "keys" field holding the keys that are present.                  *)
(***************************************************************************)
EXTENDS Integers, Sequences, FiniteSets, TLC

VARIABLES
    store,              \* the Cosmos DB documents of the file name (upsert by id)
    blob,               \* the triggering blob: extension of its name, Archive directory or not
    run,                \* number of invocations so far (context.invocation_id, uuid4)
    pc,                 \* position of the current invocation
    dict_output,        \* the local dict_output
    dict_defined,       \* 'dict_output' in locals()
    flags,              \* text/summary/pypdf2/filemarkings missing flags
    record_exists,      \* local record_exists
    record_count,       \* local record_count (line 136)
    entry_record,       \* the document read through the input binding (if one)
    txt_result,         \* local txt_result (the chunk loop consumes it)
    txt_result_length,  \* local txt_result_length
    txt_result_status,  \* local txt_result_status
    exc,                \* str(e) of the exception being handled, "" if none
    writes,             \* documents handed to cosmodocsout.set that were stored, this run
    attempts,           \* number of cosmodocsout.set calls of this run
    calls,              \* the abstract_summary calls of this run: input and result
    stages,             \* stages executed by this run
    outcome,            \* how the invocation ended
    worker,             \* the thread of pypdf2_text_extraction and the call that waits for it
    retry               \* a call of text_extraction or abstract_summary through its @retry

vars == <<store, blob, run, pc, dict_output, dict_defined, flags,
          record_exists, record_count, entry_record, txt_result, txt_result_length,
          txt_result_status, exc, writes, attempts, calls, stages, outcome,
          worker, retry>>

(***************************************************************************)
(* Bounds of the model.                                                    *)
(***************************************************************************)
MaxRuns == 3

\* The 125,000 character ceiling of one summarization call and the 2 MiB
\* ceiling of a serialized document, scaled to the size of the model's texts.
SummaryLimit == 4
SizeLimit == 24

(***************************************************************************)
(* Python string operations on sequences of characters.                    *)
(***************************************************************************)
IsSpace(c) == c \in {" ", "\n"}

Min(a, b) == IF a < b THEN a ELSE b
Max(a, b) == IF a > b THEN a ELSE b

\* s[i:j] for 0 <= i, and any j (a negative j counts from the end)
Slice(s, i, j) ==
    LET n  == Len(s)
        jj == IF j < 0 THEN Max(n + j, 0) ELSE Min(j, n)
        ii == Min(i, n)
    IN  IF jj <= ii THEN <<>> ELSE SubSeq(s, ii + 1, jj)

\* s[i:]
SliceFrom(s, i) ==
    LET n  == Len(s)
        ii == IF i < 0 THEN Max(n + i, 0) ELSE Min(i, n)
    IN  IF ii >= n THEN <<>> ELSE SubSeq(s, ii + 1, n)

\* s.rfind(c): the 0-based index of the last c, -1 when there is none
RFind(s, c) ==
    LET hits == {i \in 1..Len(s) : s[i] = c}
    IN  IF hits = {} THEN -1
        ELSE (CHOOSE i \in hits : \A k \in hits : k <= i) - 1

\* s.strip()
Strip(s) ==
    LET keep == {i \in 1..Len(s) : ~IsSpace(s[i])}
    IN  IF keep = {} THEN <<>>
        ELSE SubSeq(s, CHOOSE i \in keep : \A k \in keep : i <= k,
                       CHOOSE i \in keep : \A k \in keep : k <= i)

\* math.ceil(a / b) for a >= 0, b > 0
CeilDiv(a, b) == (a + b - 1) \div b


(***************************************************************************)
(* Values.                                                                 *)
(***************************************************************************)
\* 'No extractable text found' (lines 522, 534)
NoExtractableText ==
    <<"N","o"," ","e","x","t","r","a","c","t","a","b","l","e"," ",
      "t","e","x","t"," ","f","o","u","n","d">>

\* 'No text extracted' (line 860)
NoTextExtracted ==
    <<"N","o"," ","t","e","x","t"," ","e","x","t","r","a","c","t","e","d">>

\* '' where a number is expected (lines 212-214)
Blank == 0 - 1

\* pypdf2_text_dict (lines 815-819), before the worker and the join fill it in
Pypdf2Dict(page_count, fulltext, by_page, more) ==
    [isdict |-> TRUE,
     keys |-> {"pypdf2_page_count", "pypdf2_fulltext", "pypdf2_fulltext_by_page"} \cup more,
     pypdf2_page_count |-> page_count,
     pypdf2_fulltext |-> fulltext,
     pypdf2_fulltext_by_page |-> by_page]

Pypdf2Blank ==
    [isdict |-> FALSE, keys |-> {}, pypdf2_page_count |-> Blank,
     pypdf2_fulltext |-> <<>>, pypdf2_fulltext_by_page |-> <<>>]

\* filemarkings: '' or the dict extract_classification returns (lines 735-738)
NoMarkings ==
    [isdict |-> FALSE, classification |-> <<>>, full_document_classification_line |-> <<>>]

Markings(classification, line) ==
    [isdict |-> TRUE, classification |-> classification,
     full_document_classification_line |-> line]

\* len() of filemarkings: '' or the dict of two keys
LenMarkings(m) == IF m.isdict THEN 2 ELSE 0

\* d[k] = v on a dict kept as a set of <<key, value>> pairs
DictSet(d, k, v) == {p \in d : p[1] # k} \cup {<<k, v>>}

DictHas(d, k) == \E p \in d : p[1] = k

\* the dict_output of lines 202-226
InitialRecord(unique_id, record_version, invocation_id) ==
    [keys |-> {"id", "filename", "filepath", "filetype", "abstractsummary",
               "fulltextextract", "filemarkings", "textextract_metadata",
               "summarization_metadata", "timestamps", "pypdf2_text_extract",
               "record_version", "current_version_invocation_id"},
     id |-> unique_id,
     abstractsummary |-> <<>>,
     fulltextextract |-> <<>>,
     filemarkings |-> NoMarkings,
     textextract_metadata |->
         [keys |-> {"fulltextextract_length", "fulltextextract_status", "document_pages"},
          fulltextextract_length |-> Blank,
          fulltextextract_status |-> "",
          document_pages |-> Blank],
     summarization_metadata |-> {},
     timestamps |-> {"function_start", "extraction_start", "extraction_finish",
                     "extraction_duration"},
     abstractsummary_parts |-> {},
     pypdf2_text_extract |-> Pypdf2Blank,
     email_properties |-> FALSE,
     error |-> {},
     error_archive |-> {},
     record_version |-> record_version,
     current_version_invocation_id |-> invocation_id]

\* the dict_output the handler builds when there is none (lines 582-591)
MinimalRecord(unique_id, invocation_id) ==
    [InitialRecord(unique_id, 0, invocation_id) EXCEPT
        !.keys = {"id", "filename", "filepath", "filetype", "textextract_metadata",
                  "summarization_metadata", "timestamps", "current_version_invocation_id"},
        !.textextract_metadata.keys = {},
        !.timestamps = {"function_start"}]

(***************************************************************************)
(* func_app_doc_summary_main (lines 92-105)                                *)
(***************************************************************************)
\* str.lower() on the extensions of the model
Lower(ext) == IF ext = ".PDF" THEN ".pdf" ELSE ext

allowable_extensions == {".pdf", ".doc", ".docx", ".txt", ".msg"}

(***************************************************************************)
(* record_contents_check (lines 607-666)                                   *)
(***************************************************************************)
TextMissing(item) ==
    IF "fulltextextract" \in item.keys
    THEN Len(item.fulltextextract) <= 0
    ELSE TRUE

\* mutant: the summary is only looked at when the text is blank
SummaryMissingNested(item) ==
    IF "fulltextextract" \in item.keys /\ Len(item.fulltextextract) > 0
    THEN FALSE
    ELSE IF "abstractsummary" \in item.keys
         THEN Len(item.abstractsummary) <= 0
         ELSE TRUE

SummaryMissing(item) ==
    IF "abstractsummary" \in item.keys
    THEN Len(item.abstractsummary) <= 0
    ELSE TRUE

FilemarkingsMissing(item) ==
    IF "fulltextextract" \in item.keys
    THEN IF Len(item.fulltextextract) <= 0
         THEN IF "filemarkings" \in item.keys
              THEN LenMarkings(item.filemarkings) <= 0
              ELSE TRUE
         ELSE FALSE
    ELSE FALSE

Pypdf2Missing(item, ext) ==
    IF ext = ".pdf"
    THEN IF "pypdf2_text_extract" \in item.keys
         THEN IF "pypdf2_fulltext" \in item.pypdf2_text_extract.keys
              THEN Len(item.pypdf2_text_extract.pypdf2_fulltext) <= 0
              ELSE TRUE
         ELSE TRUE
    ELSE FALSE

record_contents_check(item, ext) ==
    [text_missing |-> TextMissing(item),
     summary_missing |-> SummaryMissing(item),
     pypdf2_missing |-> Pypdf2Missing(item, ext),
     filemarkings_missing |-> FilemarkingsMissing(item)]

\* the defaults for a file without a record (lines 145-152)
DefaultFlags(ext) ==
    [text_missing |-> TRUE,
     summary_missing |-> TRUE,
     pypdf2_missing |-> (Lower(ext) = ".pdf"),
     filemarkings_missing |-> TRUE]

(***************************************************************************)
(* Entry of func_app_doc_summary: lines 136-229                            *)
(***************************************************************************)
\* mutant: the error is copied to the archive key and not deleted
ArchiveErrorKeepsLive(d, record_version, f) ==
    IF "error" \in d.keys /\ (f.text_missing \/ f.summary_missing)
    THEN IF Cardinality(d.error) > 0
         THEN [d EXCEPT !.error_archive = DictSet(@, record_version, d.error)]
         ELSE d
    ELSE d

\* lines 177-182
ArchiveError(d, record_version, f) ==
    IF "error" \in d.keys /\ (f.text_missing \/ f.summary_missing)
    THEN IF Cardinality(d.error) > 0
         THEN [d EXCEPT !.error_archive = DictSet(@, record_version, d.error),
                        !.error = {},
                        !.keys = @ \ {"error"}]
         ELSE d
    ELSE d

\* mutant: the version is written back without the increment
NextVersionSame(d, record_version, invocation_id) ==
    [d EXCEPT !.record_version = record_version,
              !.keys = @ \cup {"record_version"},
              !.current_version_invocation_id = invocation_id]

\* lines 184-187
NextVersion(d, record_version, invocation_id) ==
    [d EXCEPT !.record_version = record_version + 1,
              !.keys = @ \cup {"record_version"},
              !.current_version_invocation_id = invocation_id]

\* mutant: the pypdf2 flag is tested the wrong way round
NothingMissingWrongFlag(exists, f) ==
    exists /\ ~f.text_missing /\ ~f.summary_missing
           /\ ~f.filemarkings_missing /\ f.pypdf2_missing

\* line 196
NothingMissing(exists, f) ==
    exists /\ ~f.text_missing /\ ~f.summary_missing
           /\ ~f.filemarkings_missing /\ ~f.pypdf2_missing


(***************************************************************************)
(* The inputs a run can meet.                                              *)
(***************************************************************************)
ShortText == <<"T", " ", "S">>
LongText  == <<"a", "\n", "a", "a", "\n", "a">>
\* a text longer than the limit whose leading window has no line end
NoNewlineText == <<"a", "a", "a", "a", "a", "a", "a">>
PageBig   == <<"x", "x", "x", "x", "x", "x", "x", "x">>
\* a text that alone is larger than the size limit of the record
BigText   == PageBig \o PageBig \o PageBig \o <<"x", "x">>

\* what the primary extraction of a .pdf/.doc/.docx can return
PrimaryResults ==
    {[status |-> "succeeded", text |-> t] : t \in {<<>>, <<" ">>, ShortText, LongText, NoNewlineText}}
    \cup {[status |-> "failed", text |-> t] : t \in {<<>>, BigText}}

\* the content of a .txt blob or the body of a .msg
PlainTexts == {<<>>, ShortText, LongText}

\* the page texts PyPDF2 can extract from a .pdf
PdfPages == {<< <<>> >>, << <<"S">>, ShortText >>, << PageBig, PageBig >>}

Blobs ==
    {[extension |-> e, archive |-> FALSE] :
        e \in {".pdf", ".PDF", ".docx", ".txt", ".msg", ".xlsx"}}
    \cup {[extension |-> ".pdf", archive |-> TRUE]}

(***************************************************************************)
(* pypdf2_text_extraction (lines 798-880)                                  *)
(***************************************************************************)
RECURSIVE WorkerFullText(_)
\* lines 830-836: full_text += page_text + "\n" over the pages
WorkerFullText(pages) ==
    IF pages = <<>> THEN <<>>
    ELSE Head(pages) \o <<"\n">> \o WorkerFullText(Tail(pages))


(***************************************************************************)
(* pypdf2_text_extraction, statement by statement: the thread that runs     *)
(* pdf_extraction_worker (lines 821-847) and the caller that waits for it   *)
(* (lines 849-880).  Both work on the one pypdf2_text_dict of lines 815-819.*)
(***************************************************************************)
\* the .pdf files: their pages, whether PdfReader fails on them, and whether
\* reading them can take longer than the timeout of the join
Pdfs ==
    {[pages |-> p, slow |-> (p = << PageBig, PageBig >>), corrupt |-> FALSE] :
        p \in PdfPages}
    \cup {[pages |-> << ShortText >>, slow |-> s, corrupt |-> TRUE] : s \in BOOLEAN}

\* lines 810-819 and 851-852: the queues, the dict and the started thread
Started(pdf) ==
    [pdf |-> pdf, cpc |-> "join", wpc |-> "open", k |-> 0,
     full_text_queue |-> <<>>, exception_queue |-> <<>>,
     pypdf2_text_dict |-> Pypdf2Dict(Blank, <<>>, <<>>, {}),
     returned |-> Pypdf2Blank]

\* lines 843-847: the except clause of the thread; the thread is alive until
\* it has logged and re-raised
WorkerRaises(w) ==
    [w EXCEPT !.exception_queue = Append(@, "e"), !.wpc = "raising"]

\* lines 825-830: PdfReader(bytes_content)
WorkerOpenStep(w) ==
    IF w.pdf.corrupt THEN WorkerRaises(w) ELSE [w EXCEPT !.wpc = "pages"]

\* lines 832-837: one iteration of the loop over the pages
WorkerPageStep(w) ==
    IF "pypdf2_fulltext_by_page" \in w.pypdf2_text_dict.keys
    THEN [w EXCEPT !.pypdf2_text_dict.pypdf2_fulltext_by_page =
                       Append(@, w.pdf.pages[w.k + 1]),
                   !.k = @ + 1]
    ELSE WorkerRaises(w)

\* line 838
WorkerCountStep(w) ==
    [w EXCEPT !.pypdf2_text_dict.pypdf2_page_count = Len(w.pdf.pages),
              !.wpc = "put"]

\* line 841
WorkerPutStep(w) ==
    [w EXCEPT !.full_text_queue = Append(@, Strip(WorkerFullText(w.pdf.pages))),
              !.wpc = "exiting"]

\* the thread ends: is_alive() is False from here on
WorkerExitStep(w) ==
    [w EXCEPT !.wpc = "dead"]

\* the steps the thread can take from w
WorkerSteps(w) ==
    CASE w.wpc = "open" -> {WorkerOpenStep(w)}
      [] w.wpc = "pages" /\ w.k < Len(w.pdf.pages) -> {WorkerPageStep(w)}
      [] w.wpc = "pages" /\ w.k >= Len(w.pdf.pages) -> {WorkerCountStep(w)}
      [] w.wpc = "put" -> {WorkerPutStep(w)}
      [] w.wpc \in {"exiting", "raising"} -> {WorkerExitStep(w)}
      [] OTHER -> {}

\* mutant: a join without timeout
JoinWaits(w) == w.wpc = "dead"

\* line 855: join(timeout) returns when the thread has ended, or when the
\* timeout expires, which only a slow file lets happen
JoinReturns(w) == w.wpc = "dead" \/ w.pdf.slow

\* lines 857-860
ReadQueueStep(w) ==
    IF w.full_text_queue # <<>>
    THEN [w EXCEPT !.pypdf2_text_dict.pypdf2_fulltext = Head(w.full_text_queue),
                   !.full_text_queue = Tail(@),
                   !.cpc = "alive"]
    ELSE [w EXCEPT !.pypdf2_text_dict.pypdf2_fulltext = NoTextExtracted,
                   !.cpc = "alive"]

\* return pypdf2_text_dict (lines 866, 873, 880): the caller gets the dict
Return(w, more) ==
    LET d == [w.pypdf2_text_dict EXCEPT !.keys = @ \cup more]
    IN  [w EXCEPT !.pypdf2_text_dict = d, !.returned = d, !.cpc = "returned"]

\* lines 863-866
CheckAliveStep(w) ==
    IF w.wpc # "dead"
    THEN Return(w, {"pypdf2_timeout_error"})
    ELSE [w EXCEPT !.cpc = "exception"]

\* lines 869-873 and 880
CheckExceptionStep(w) ==
    IF w.exception_queue # <<>>
    THEN Return([w EXCEPT !.exception_queue = Tail(@)], {"pypdf2_error"})
    ELSE Return(w, {})

\* the steps the caller can take from w
CallerSteps(w) ==
    CASE w.cpc = "join" /\ JoinReturns(w) -> {[w EXCEPT !.cpc = "queue"]}
      [] w.cpc = "queue" -> {ReadQueueStep(w)}
      [] w.cpc = "alive" -> {CheckAliveStep(w)}
      [] w.cpc = "exception" -> {CheckExceptionStep(w)}
      [] OTHER -> {}

RECURSIVE Reached(_, _)
\* the states the call can be in, from the states in todo, under every
\* interleaving of the thread and the caller up to the return of the caller
Reached(todo, seen) ==
    IF todo = {} THEN seen
    ELSE LET new == (UNION {IF w.cpc = "returned" THEN {}
                            ELSE WorkerSteps(w) \cup CallerSteps(w) : w \in todo})
                    \ (seen \cup todo)
         IN  Reached(new, seen \cup todo)

\* the states in which pypdf2_text_extraction can return
Pypdf2Returns ==
    {w \in Reached({Started(pdf) : pdf \in Pdfs}, {}) : w.cpc = "returned"}

\* the dicts pypdf2_text_extraction can return
pypdf2_text_extraction == {w.returned : w \in Pypdf2Returns}

\* no call of pypdf2_text_extraction is under way and no thread is left behind
NoWorker ==
    [pdf |-> [pages |-> <<>>, slow |-> FALSE, corrupt |-> FALSE],
     cpc |-> "none", wpc |-> "dead", k |-> 0,
     full_text_queue |-> <<>>, exception_queue |-> <<>>,
     pypdf2_text_dict |-> Pypdf2Blank, returned |-> Pypdf2Blank]

\* the thread a returned call leaves behind, as far as the rest of the run can
\* see it: a thread that still has lines 836 or 838 ahead of it
Abandoned(w) ==
    IF w.cpc = "returned" /\ ~w.pdf.corrupt /\ w.wpc \in {"open", "pages"}
    THEN [w EXCEPT !.wpc = "pages"]
    ELSE NoWorker

\* no call through @retry is being followed
NoRetry ==
    [fn |-> "none", rpc |-> "none", attempt_number |-> 0, seconds_since_start |-> 0,
     slept |-> 0, outcome |-> "", raised |-> "", value |-> ""]

(***************************************************************************)
(* Initial state and the trigger.                                          *)
(***************************************************************************)
NoFlags ==
    [text_missing |-> FALSE, summary_missing |-> FALSE,
     pypdf2_missing |-> FALSE, filemarkings_missing |-> FALSE]

NoRecord == InitialRecord(0, 0, 0)

\* the locals of an invocation that has not started
FreshLocals ==
    /\ dict_output' = NoRecord
    /\ dict_defined' = FALSE
    /\ flags' = NoFlags
    /\ record_exists' = FALSE
    /\ record_count' = 0
    /\ entry_record' = NoRecord
    /\ txt_result' = <<>>
    /\ txt_result_length' = Blank
    /\ txt_result_status' = ""
    /\ exc' = ""
    /\ writes' = <<>>
    /\ attempts' = 0
    /\ calls' = <<>>
    /\ stages' = {}
    /\ worker' = NoWorker
    /\ UNCHANGED retry

Init ==
    /\ store = {}
    /\ blob \in Blobs
    /\ run = 0
    /\ pc = "idle"
    /\ dict_output = NoRecord
    /\ dict_defined = FALSE
    /\ flags = NoFlags
    /\ record_exists = FALSE
    /\ record_count = 0
    /\ entry_record = NoRecord
    /\ txt_result = <<>>
    /\ txt_result_length = Blank
    /\ txt_result_status = ""
    /\ exc = ""
    /\ writes = <<>>
    /\ attempts = 0
    /\ calls = <<>>
    /\ stages = {}
    /\ outcome = "none"
    /\ worker = NoWorker
    /\ retry = NoRetry

\* file_extension as func_app_doc_summary_main passes it on (line 93)
file_extension == Lower(blob.extension)

\* func_app_doc_summary_main (lines 92-105): the blob trigger fires
Trigger ==
    /\ pc = "idle"
    /\ run < MaxRuns
    /\ run' = run + 1
    /\ FreshLocals
    /\ IF blob.archive
       THEN pc' = "idle" /\ outcome' = "archive"
       ELSE IF file_extension \in allowable_extensions
            THEN pc' = "entry" /\ outcome' = "running"
            ELSE pc' = "idle" /\ outcome' = "skipped"
    /\ UNCHANGED <<store, blob>>

\* uuid.uuid4() and context.invocation_id of the current invocation
unique_id == run
invocation_id == run

\* an exception reaches the handler of line 579
Raise(e) ==
    /\ pc' = "handler"
    /\ exc' = e

\* mutant: any number of records counts as an existing record
RecordCaseAny(count) ==
    IF count <= 0 THEN "new" ELSE "existing"

\* the three cases of lines 161, 165 and 191
RecordCase(count) ==
    IF count <= 0 THEN "new"
    ELSE IF count = 1 THEN "existing"
    ELSE "duplicate"

\* lines 136-229
Entry ==
    /\ pc = "entry"
    /\ record_count' = Cardinality(store)
    /\ IF RecordCase(record_count') = "new"
       THEN /\ flags' = DefaultFlags(file_extension)
            /\ record_exists' = FALSE
            /\ dict_output' = InitialRecord(unique_id, 1, invocation_id)
            /\ dict_defined' = TRUE
            /\ pc' = "extract"
            /\ UNCHANGED <<entry_record, exc, outcome>>
       ELSE IF RecordCase(record_count') = "existing"
       THEN LET item == CHOOSE r \in store : TRUE
                f == record_contents_check(item, blob.extension)
            IN  /\ flags' = f
                /\ record_exists' = TRUE
                /\ entry_record' = item
                /\ dict_defined' = TRUE
                /\ IF "record_version" \notin item.keys
                   THEN /\ dict_output' = item
                        /\ Raise("'record_version'")
                        /\ UNCHANGED outcome
                   ELSE /\ dict_output' =
                              NextVersion(ArchiveError(item, item.record_version, f),
                                          item.record_version, invocation_id)
                        /\ exc' = exc
                        /\ IF NothingMissing(TRUE, f)
                           THEN pc' = "idle" /\ outcome' = "noop"
                           ELSE pc' = "extract" /\ UNCHANGED outcome
       ELSE /\ pc' = "idle"
            /\ outcome' = "duplicate"
            /\ flags' = DefaultFlags(file_extension)
            /\ UNCHANGED <<record_exists, entry_record, dict_output,
                           dict_defined, exc>>
    /\ UNCHANGED worker
    /\ UNCHANGED <<store, blob, run, txt_result, txt_result_length,
                   txt_result_status, writes, attempts, calls, stages>>
    /\ UNCHANGED retry

(***************************************************************************)
(* Text extraction section: lines 236-319                                  *)
(***************************************************************************)
\* lines 291-294
SetTextExtract(d, txt, length, status) ==
    [d EXCEPT !.fulltextextract = txt,
              !.keys = @ \cup {"fulltextextract"},
              !.textextract_metadata.fulltextextract_length = length,
              !.textextract_metadata.fulltextextract_status = status,
              !.textextract_metadata.keys =
                  @ \cup {"fulltextextract_length", "fulltextextract_status"}]

\* dict_output['pypdf2_text_extract'] = pypdf2_text_dict (lines 255, 306)
SetPypdf2(d, pd) ==
    [d EXCEPT !.pypdf2_text_extract = pd,
              !.keys = @ \cup {"pypdf2_text_extract"}]

\* lines 258-263 and 270-274: the status of a decoded text or an email body
PlainStatus(txt) == IF Len(txt) > 0 THEN "succeeded" ELSE "failed"

\* the stage ends: txt_result and its metadata are known
AfterExtraction(d, txt, length, status, ran) ==
    /\ dict_output' = d
    /\ txt_result' = txt
    /\ txt_result_length' = length
    /\ txt_result_status' = status
    /\ stages' = stages \cup ran
    /\ pc' = "classify"
    /\ exc' = exc

\* a stage stops on an exception with dict_output as it is at that point
StageRaises(d, e, ran) ==
    /\ dict_output' = d
    /\ stages' = stages \cup ran
    /\ Raise(e)
    /\ UNCHANGED <<txt_result, txt_result_length, txt_result_status>>

\* line 280-281, then lines 291-299
FinishExtraction(d, txt, status, ran) ==
    IF file_extension # ".pdf"
    THEN IF "pypdf2_text_extract" \in d.keys
         THEN AfterExtraction(
                  SetTextExtract([d EXCEPT !.keys = @ \ {"pypdf2_text_extract"}],
                                 txt, Len(txt), status),
                  txt, Len(txt), status, ran)
         ELSE StageRaises(d, "'pypdf2_text_extract'", ran)
    ELSE AfterExtraction(SetTextExtract(d, txt, Len(txt), status),
                         txt, Len(txt), status, ran)

\* lines 236-299: the text is missing
ExtractText ==
    /\ pc = "extract"
    /\ flags.text_missing
    /\ \/ /\ file_extension \in {".pdf", ".doc", ".docx"}
          /\ \/ \E r \in PrimaryResults :
                \E w \in IF flags.pypdf2_missing THEN Pypdf2Returns ELSE {NoWorker} :
                   LET pd == w.returned
                       d1 == [dict_output EXCEPT
                                 !.textextract_metadata.document_pages = 1,
                                 !.textextract_metadata.keys = @ \cup {"document_pages"}]
                       d2 == IF flags.pypdf2_missing THEN SetPypdf2(d1, pd) ELSE d1
                       ran == {"text_extraction"} \cup
                              IF flags.pypdf2_missing THEN {"pypdf2"} ELSE {}
                   IN  /\ FinishExtraction(d2, r.text, r.status, ran)
                       /\ worker' = Abandoned(w)
             \/ /\ StageRaises(dict_output, "text_extraction failed", {"text_extraction"})
                /\ worker' = NoWorker
       \/ /\ file_extension = ".txt"
          /\ worker' = NoWorker
          /\ \/ \E txt \in PlainTexts :
                   IF "document_pages" \in dict_output.textextract_metadata.keys
                   THEN FinishExtraction(
                            [dict_output EXCEPT !.textextract_metadata.keys =
                                                    @ \ {"document_pages"}],
                            txt, PlainStatus(txt), {"text_extraction"})
                   ELSE StageRaises(dict_output, "'document_pages'", {"text_extraction"})
             \/ StageRaises(dict_output, "utf-8 codec can't decode", {"text_extraction"})
       \/ /\ file_extension = ".msg"
          /\ worker' = NoWorker
          /\ \/ \E txt \in PlainTexts :
                   FinishExtraction(
                       [dict_output EXCEPT !.email_properties = TRUE,
                                           !.keys = @ \cup {"email_properties"}],
                       txt, PlainStatus(txt), {"text_extraction"})
             \/ StageRaises([dict_output EXCEPT !.keys = @ \cup {"email_properties"}],
                            "Problem in function email_extraction", {"text_extraction"})
    /\ UNCHANGED <<store, blob, run, dict_defined, flags, record_exists,
                   record_count, entry_record, writes, attempts, calls, outcome>>
    /\ UNCHANGED retry

\* lines 303-309: the text exists, the pypdf2 extract is missing
ExtractPypdf2Only ==
    /\ pc = "extract"
    /\ ~flags.text_missing
    /\ flags.pypdf2_missing
    /\ \E w \in Pypdf2Returns :
          /\ AfterExtraction(SetPypdf2(dict_output, w.returned),
                             dict_output.fulltextextract,
                             dict_output.textextract_metadata.fulltextextract_length,
                             dict_output.textextract_metadata.fulltextextract_status,
                             {"pypdf2"})
          /\ worker' = Abandoned(w)
    /\ UNCHANGED <<store, blob, run, dict_defined, flags, record_exists,
                   record_count, entry_record, writes, attempts, calls, outcome>>
    /\ UNCHANGED retry

\* lines 312-319: text and pypdf2 extract are read from the existing record
ReadExisting ==
    /\ pc = "extract"
    /\ ~flags.text_missing
    /\ ~flags.pypdf2_missing
    /\ IF file_extension = ".pdf" /\ "pypdf2_text_extract" \notin dict_output.keys
       THEN StageRaises(dict_output, "'pypdf2_text_extract'", {})
       ELSE AfterExtraction(dict_output,
                            dict_output.fulltextextract,
                            dict_output.textextract_metadata.fulltextextract_length,
                            dict_output.textextract_metadata.fulltextextract_status,
                            {})
    /\ UNCHANGED worker
    /\ UNCHANGED <<store, blob, run, dict_defined, flags, record_exists,
                   record_count, entry_record, writes, attempts, calls, outcome>>
    /\ UNCHANGED retry


(***************************************************************************)
(* extract_classification (lines 733-758)                                  *)
(***************************************************************************)
\* \w of the regular expressions, on the characters of the model
IsWord(c) == c \notin {" ", "\n", "/", "-"}

\* re.IGNORECASE on the characters of the model
LowerChar(c) ==
    CASE c = "S" -> "s"
      [] c = "T" -> "t"
      [] c = "N" -> "n"
      [] OTHER -> c

RECURSIVE SplitLines(_)
\* str.splitlines() for the line end "\n"
SplitLines(s) ==
    IF s = <<>> THEN <<>>
    ELSE LET nl == {i \in 1..Len(s) : s[i] = "\n"} IN
         IF nl = {} THEN <<s>>
         ELSE LET i == CHOOSE k \in nl : \A m \in nl : k <= m
              IN  <<SubSeq(s, 1, i - 1)>> \o SplitLines(SubSeq(s, i + 1, Len(s)))

\* \b between line[p] and line[p+1] (p = 0 is the start, p = Len the end)
WordBoundary(line, p) ==
    LET left  == p >= 1 /\ p <= Len(line) /\ IsWord(line[p])
        right == p + 1 >= 1 /\ p + 1 <= Len(line) /\ IsWord(line[p + 1])
    IN  left # right

\* re.search(pattern, line, re.IGNORECASE) for the pattern of lines 741-744
Search(classification, line) ==
    LET n == Len(classification)
        literal == \E k \in 1..n : classification[k] = "/"
    IN  \E i \in 1..(Len(line) - n + 1) :
           /\ \A k \in 1..n : LowerChar(line[i + k - 1]) = LowerChar(classification[k])
           /\ literal \/ (WordBoundary(line, i - 1) /\ WordBoundary(line, i + n - 1))

RECURSIVE FirstLine(_, _)
\* the first line the term matches, <<>> in a one-element wrapper when none
FirstLine(classification, lines) ==
    IF lines = <<>> THEN <<>>
    ELSE IF Search(classification, Head(lines)) THEN <<Head(lines)>>
    ELSE FirstLine(classification, Tail(lines))

RECURSIVE extract_classification(_, _)
\* mutant: the lines are scanned first, the terms second
ExtractByLine(text, classifications) ==
    LET lines == SplitLines(text)
        hits  == {i \in 1..Len(lines) :
                     \E k \in 1..Len(classifications) : Search(classifications[k], lines[i])}
    IN  IF hits = {} THEN NoMarkings
        ELSE LET i == CHOOSE h \in hits : \A g \in hits : h <= g
                 ks == {k \in 1..Len(classifications) : Search(classifications[k], lines[i])}
                 k == CHOOSE h \in ks : \A g \in ks : h <= g
             IN  Markings(classifications[k], lines[i])

extract_classification(text, classifications) ==
    IF classifications = <<>> THEN NoMarkings
    ELSE LET hit == FirstLine(Head(classifications), SplitLines(text)) IN
         IF hit # <<>> THEN Markings(Head(classifications), hit[1])
         ELSE extract_classification(text, Tail(classifications))

RECURSIVE InsertByLen(_, _)
InsertByLen(term, sorted) ==
    IF sorted = <<>> THEN <<term>>
    ELSE IF Len(Head(sorted)) >= Len(term)
         THEN <<Head(sorted)>> \o InsertByLen(term, Tail(sorted))
         ELSE <<term>> \o sorted

RECURSIVE SortByLenDesc(_)
\* mutant: the terms are tried in the order of the file
SortByFileOrder(terms) ==
    terms

\* classifications.sort(key=len, reverse=True): stable, longest first (line 331)
SortByLenDesc(terms) ==
    IF terms = <<>> THEN <<>>
    ELSE InsertByLen(terms[Len(terms)], SortByLenDesc(SubSeq(terms, 1, Len(terms) - 1)))

\* the lines of classifications.txt
Classifications == << <<"S">>, <<"T", " ", "S">> >>

\* the orders in which the reference file can list its terms
ClassificationFiles ==
    {Classifications,
     << <<"T", " ", "S">>, <<"S">> >>,
     << <<"S">>, <<"N">>, <<"T", " ", "S">> >>}


\* mutant: the pypdf2 text is tried whatever the primary text gave
PrimaryEmptyAlways(filemarkings) ==
    TRUE

\* len(filemarkings) <= 0, the first comparison of line 336
PrimaryEmpty(filemarkings) ==
    LenMarkings(filemarkings) <= 0

(***************************************************************************)
(* Classification section: lines 326-340                                   *)
(***************************************************************************)
Classify ==
    /\ pc = "classify"
    /\ IF flags.filemarkings_missing
       THEN \E file \in ClassificationFiles :
            LET sorted == SortByLenDesc(file)
                first  == extract_classification(txt_result, sorted)
                pd     == dict_output.pypdf2_text_extract
            IN  IF file_extension = ".pdf" /\ PrimaryEmpty(first)
                THEN IF "pypdf2_text_extract" \notin dict_output.keys
                     THEN StageRaises(dict_output, "'pypdf2_text_extract'", {"classification"})
                     ELSE IF ~pd.isdict
                     THEN StageRaises(dict_output, "string indices must be integers",
                                      {"classification"})
                     ELSE IF "pypdf2_fulltext" \notin pd.keys
                     THEN StageRaises(dict_output, "'pypdf2_fulltext'", {"classification"})
                     ELSE LET second == IF 0 < Len(pd.pypdf2_fulltext)
                                        THEN extract_classification(pd.pypdf2_fulltext, sorted)
                                        ELSE first
                          IN  /\ dict_output' =
                                    IF LenMarkings(second) > 0
                                    THEN [dict_output EXCEPT !.filemarkings = second,
                                                             !.keys = @ \cup {"filemarkings"}]
                                    ELSE dict_output
                              /\ stages' = stages \cup {"classification"}
                                     \cup (IF 0 < Len(pd.pypdf2_fulltext)
                                           THEN {"classification of pypdf2 text"}
                                           ELSE {})
                              /\ pc' = "summarize"
                              /\ UNCHANGED <<exc, txt_result, txt_result_length,
                                             txt_result_status>>
                ELSE /\ dict_output' =
                           IF LenMarkings(first) > 0
                           THEN [dict_output EXCEPT !.filemarkings = first,
                                                    !.keys = @ \cup {"filemarkings"}]
                           ELSE dict_output
                     /\ stages' = stages \cup {"classification"}
                     /\ pc' = "summarize"
                     /\ UNCHANGED <<exc, txt_result, txt_result_length, txt_result_status>>
       ELSE /\ pc' = "summarize"
            /\ UNCHANGED <<dict_output, stages, exc, txt_result, txt_result_length,
                           txt_result_status>>
    /\ UNCHANGED worker
    /\ UNCHANGED <<store, blob, run, dict_defined, flags, record_exists,
                   record_count, entry_record, writes, attempts, calls, outcome>>
    /\ UNCHANGED retry


(***************************************************************************)
(* Summary section: lines 348-536                                          *)
(***************************************************************************)
\* what abstract_summary can return for one document (lines 708-722)
SummaryResults ==
    {[raised |-> FALSE, is_error |-> TRUE, code |-> "InvalidRequest",
      message |-> "Invalid document", text |-> <<>>],
     [raised |-> FALSE, is_error |-> FALSE, code |-> "", message |-> "",
      text |-> <<"s">>],
     [raised |-> FALSE, is_error |-> FALSE, code |-> "", message |-> "",
      text |-> <<"u", "v">>]}

\* abstract_summary gives up after its retries and re-raises (line 706)
SummaryRaised ==
    [raised |-> TRUE, is_error |-> FALSE, code |-> "", message |-> "", text |-> <<>>]

\* one call of abstract_summary: the text of document[0] and what came back
Call(document, res) == [document |-> document, result |-> res]

\* the value {} and a summary string under abstractsummary_parts[summary_part]
PartEmpty == [isdict |-> TRUE, text |-> <<>>]
PartSummary(t) == [isdict |-> FALSE, text |-> t]

\* f"summarypart{str(x).zfill(2)}" (line 427)
SummaryPart(x) == "summarypart" \o (IF x < 10 THEN "0" ELSE "") \o ToString(x)

\* if 'error' not in dict_output: dict_output["error"] = {} (lines 470, 515, 528, 592)
EnsureError(d) ==
    IF "error" \in d.keys THEN d
    ELSE [d EXCEPT !.error = {}, !.keys = @ \cup {"error"}]

SetError(d, k, v) ==
    [EnsureError(d) EXCEPT !.error = DictSet(EnsureError(d).error, k, v)]

\* mutant: the summary is stored without its input and output lengths
ShortSummaryNoLengths(d, document, res) ==
    IF res.is_error
    THEN d
    ELSE [d EXCEPT !.abstractsummary = res.text,
                   !.keys = @ \cup {"abstractsummary"}]

\* lines 380-399: the result of the single call of the short text path
ShortSummary(d, document, res) ==
    IF res.is_error
    THEN [d EXCEPT !.summarization_metadata =
                       DictSet(DictSet(@, "summary_error_code", res.code),
                               "summary_error_message", res.message)]
    ELSE [d EXCEPT !.abstractsummary = res.text,
                   !.keys = @ \cup {"abstractsummary"},
                   !.summarization_metadata =
                       DictSet(DictSet(@, "text_input_length", Len(document)),
                               "summary_length", Len(res.text)),
                   !.timestamps = @ \cup {"summary_start", "summary_finish",
                                          "summary_duration", "total_duration"}]

\* lines 433-442: the nested dicts of one part are created when they are missing
InitPart(d, part) ==
    [d EXCEPT !.abstractsummary_parts =
                  IF DictHas(@, part) THEN @ ELSE @ \cup {<<part, PartEmpty>>},
              !.keys = @ \cup {"abstractsummary_parts"},
              !.summarization_metadata =
                  IF DictHas(@, part) THEN @ ELSE @ \cup {<<part, 0>>},
              !.timestamps = @ \cup {part}]

\* lines 450-455: the chunk submitted and the text left
NewlinePosition(txt) == RFind(Slice(txt, 0, SummaryLimit), "\n")
Chunk(txt) == Slice(txt, 0, NewlinePosition(txt))
Remaining(txt) == SliceFrom(txt, NewlinePosition(txt))

\* mutant: the error of a chunk is recorded under keys without the part index
PartResultErrorUnkeyed(st, part, document, res) ==
    IF res.is_error
    THEN [st EXCEPT !.d = SetError(SetError(st.d, "summary_error_code", res.code),
                                   "summary_error_message", res.message)]
    ELSE [st EXCEPT
            !.d = [st.d EXCEPT
                     !.abstractsummary_parts = DictSet(@, part, PartSummary(res.text))],
            !.final_summary = @ \o <<" ">> \o res.text]

\* lines 467-494: the result of the call for one chunk
PartResult(st, part, document, res) ==
    IF res.is_error
    THEN [st EXCEPT !.d = SetError(SetError(st.d, part \o "_error_code", res.code),
                                   part \o "_error_message", res.message)]
    ELSE [st EXCEPT
            !.d = [st.d EXCEPT
                     !.abstractsummary_parts = DictSet(@, part, PartSummary(res.text)),
                     !.summarization_metadata =
                         DictSet(DictSet(@, part \o "/text_input_length", Len(document)),
                                 part \o "/summary_length", Len(res.text)),
                     !.timestamps = @ \cup {part \o "/" \o part \o "_start",
                                            part \o "/" \o part \o "_finish",
                                            part \o "/" \o part \o "_duration"}],
            !.total_in = @ + Len(document),
            !.total_len = @ + Len(res.text),
            !.final_summary = @ \o <<" ">> \o res.text]

RECURSIVE ChunkLoopCutsRecord(_, _, _, _)
\* mutant: the loop cuts the text of the record instead of its own copy
ChunkLoopCutsRecord(st, x, n, results) ==
    IF x >= n \/ st.raised THEN st
    ELSE LET part     == SummaryPart(x)
             document == Chunk(st.txt)
             st1      == [st EXCEPT !.d = [InitPart(st.d, part) EXCEPT
                                              !.fulltextextract = Remaining(st.txt)],
                                    !.txt = Remaining(st.txt),
                                    !.calls = Append(@, Call(document, results[x + 1]))]
         IN  IF results[x + 1].raised
             THEN [st1 EXCEPT !.raised = TRUE]
             ELSE ChunkLoopCutsRecord(PartResult(st1, part, document, results[x + 1]),
                                      x + 1, n, results)

RECURSIVE ChunkLoop(_, _, _, _)
\* lines 425-494: iterations x .. n-1; results[x+1] is what the call of iteration x
\* returns, SummaryRaised when abstract_summary gives up and re-raises
ChunkLoop(st, x, n, results) ==
    IF x >= n \/ st.raised THEN st
    ELSE LET part     == SummaryPart(x)
             document == Chunk(st.txt)
             st1      == [st EXCEPT !.d = InitPart(st.d, part),
                                    !.txt = Remaining(st.txt),
                                    !.calls = Append(@, Call(document, results[x + 1]))]
         IN  IF results[x + 1].raised
             THEN [st1 EXCEPT !.raised = TRUE]
             ELSE ChunkLoop(PartResult(st1, part, document, results[x + 1]),
                            x + 1, n, results)

\* mutant: an empty final summary is not reported
FinalSummarySilent(st) ==
    IF Len(Strip(st.final_summary)) > 0
    THEN [st.d EXCEPT !.abstractsummary = st.final_summary,
                      !.keys = @ \cup {"abstractsummary"}]
    ELSE st.d

\* lines 499-518
FinalSummary(st) ==
    IF Len(Strip(st.final_summary)) > 0
    THEN [st.d EXCEPT !.abstractsummary = st.final_summary,
                      !.keys = @ \cup {"abstractsummary"},
                      !.summarization_metadata =
                          DictSet(DictSet(@, "text_input_length", st.total_in),
                                  "summary_length", st.total_len),
                      !.timestamps = @ \cup {"summary_start", "summary_finish",
                                             "summary_duration", "total_duration"}]
    ELSE SetError(st.d, "final_summary_error",
                  "Something went wrong creating summary of long document")

\* mutant: the status of the extraction is not looked at
ShouldSummarizeAnyStatus ==
    /\ flags.summary_missing
    /\ Len(Strip(txt_result)) > 0

\* line 348
ShouldSummarize ==
    /\ flags.summary_missing
    /\ txt_result_status = "succeeded"
    /\ Len(Strip(txt_result)) > 0

\* mutant: an empty text of a succeeded extraction leaves no trace in the record
SkipSummarySilent(d, txt, status) ==
    IF status = "succeeded" /\ Len(Strip(txt)) = 0
    THEN d
    ELSE SetError(d, "text_extraction_status", status)

\* lines 520-536: no summarization in this run
SkipSummary(d, txt, status) ==
    IF status = "succeeded" /\ Len(Strip(txt)) = 0
    THEN [d EXCEPT !.fulltextextract = NoExtractableText,
                   !.keys = @ \cup {"fulltextextract"}]
    ELSE IF Len(Strip(txt)) > 0
         THEN SetError(d, "text_extraction_status", status)
         ELSE [SetError(d, "text_extraction_status", status) EXCEPT
                  !.fulltextextract = NoExtractableText,
                  !.keys = @ \cup {"fulltextextract"}]

\* lines 365-399
SummarizeShort ==
    /\ pc = "summarize"
    /\ ShouldSummarize
    /\ txt_result_length <= SummaryLimit
    /\ stages' = stages \cup {"summarization"}
    /\ \E res \in SummaryResults \cup {SummaryRaised} :
          /\ calls' = Append(calls, Call(txt_result, res))
          /\ IF res.raised
             THEN /\ dict_output' = dict_output
                  /\ Raise("abstract_summary failed")
             ELSE /\ dict_output' = ShortSummary(dict_output, txt_result, res)
                  /\ pc' = "guard"
                  /\ exc' = exc
    /\ UNCHANGED worker
    /\ UNCHANGED <<store, blob, run, dict_defined, flags, record_exists, record_count, entry_record,
                   txt_result, txt_result_length, txt_result_status, writes,
                   attempts, outcome>>
    /\ UNCHANGED retry

\* lines 408-518
SummarizeLong ==
    /\ pc = "summarize"
    /\ ShouldSummarize
    /\ txt_result_length > SummaryLimit
    /\ LET n == CeilDiv(Len(txt_result), SummaryLimit) IN
       \E results \in [1..n -> SummaryResults \cup {SummaryRaised}] :
          LET st == ChunkLoop([d |-> dict_output, txt |-> txt_result,
                               final_summary |-> <<>>, total_in |-> 0,
                               total_len |-> 0, calls |-> calls, raised |-> FALSE],
                              0, n, results)
          IN  /\ txt_result' = st.txt
              /\ calls' = st.calls
              /\ stages' = stages \cup {"summarization"}
              /\ IF st.raised
                 THEN /\ dict_output' = st.d
                      /\ Raise("abstract_summary failed")
                 ELSE /\ dict_output' = FinalSummary(st)
                      /\ pc' = "guard"
                      /\ exc' = exc
    /\ UNCHANGED worker
    /\ UNCHANGED <<store, blob, run, dict_defined, flags, record_exists, record_count, entry_record,
                   txt_result_length, txt_result_status, writes, attempts, outcome>>
    /\ UNCHANGED retry

\* lines 520-536
NoSummary ==
    /\ pc = "summarize"
    /\ ~ShouldSummarize
    /\ dict_output' = SkipSummary(dict_output, txt_result, txt_result_status)
    /\ pc' = "guard"
    /\ UNCHANGED worker
    /\ UNCHANGED <<store, blob, run, dict_defined, flags, record_exists, record_count, entry_record,
                   txt_result, txt_result_length, txt_result_status, exc, writes,
                   attempts, calls, stages, outcome>>
    /\ UNCHANGED retry


(***************************************************************************)
(* The thread pypdf2_text_extraction left behind when it returned on the    *)
(* timeout goes on while the run classifies and summarizes: it writes into  *)
(* the dict that is now dict_output['pypdf2_text_extract'] (lines 255, 306) *)
(***************************************************************************)
\* dict_output['pypdf2_text_extract'] is the pypdf2_text_dict of the thread
Attached ==
    /\ dict_defined
    /\ "pypdf2_text_extract" \in dict_output.keys
    /\ dict_output.pypdf2_text_extract.isdict

AbandonedWorker ==
    /\ pc \in {"classify", "summarize", "guard", "handler"}
    /\ worker.cpc = "returned"
    /\ \E w \in WorkerSteps(worker) :
          /\ worker' = Abandoned(w)
          /\ dict_output' =
                IF Attached
                THEN [dict_output EXCEPT !.pypdf2_text_extract = w.pypdf2_text_dict]
                ELSE dict_output
    /\ UNCHANGED <<store, blob, run, pc, dict_defined, flags, record_exists,
                   record_count, entry_record, txt_result, txt_result_length,
                   txt_result_status, exc, writes, attempts, calls, stages, outcome>>
    /\ UNCHANGED retry

(***************************************************************************)
(* Size check of the serialized record: lines 538-557                      *)
(***************************************************************************)
RECURSIVE SumLen(_)
SumLen(texts) == IF texts = <<>> THEN 0 ELSE Len(Head(texts)) + SumLen(Tail(texts))

\* the characters json.dumps spends on the texts of the pypdf2 extract
Pypdf2Size(pd) ==
    IF ~pd.isdict THEN 0
    ELSE (IF "pypdf2_fulltext" \in pd.keys THEN Len(pd.pypdf2_fulltext) ELSE 0)
         + (IF "pypdf2_fulltext_by_page" \in pd.keys
            THEN SumLen(pd.pypdf2_fulltext_by_page) ELSE 0)

\* sys.getsizeof(json.dumps(dict_output)), counted in characters of the texts
\* and the summary the record holds
JsonSize(d) ==
    (IF "fulltextextract" \in d.keys THEN Len(d.fulltextextract) ELSE 0)
    + (IF "abstractsummary" \in d.keys THEN Len(d.abstractsummary) ELSE 0)
    + (IF "pypdf2_text_extract" \in d.keys THEN Pypdf2Size(d.pypdf2_text_extract) ELSE 0)

\* what sys.getsizeof adds to the length of an ASCII str: the header of the
\* str object (49 bytes in CPython), on the scale of SizeLimit
StrOverhead == 1

\* sys.getsizeof(json_output) for a json_output of n characters: json.dumps
\* escapes every non-ASCII character, so n is also its size in bytes
getsizeof(n) == n + StrOverhead

\* line 541 (and line 552)
OverLimit(d) == getsizeof(JsonSize(d)) > SizeLimit

\* lines 547-549
DropByPage(d) ==
    IF "pypdf2_fulltext_by_page" \in d.pypdf2_text_extract.keys
    THEN [d EXCEPT !.pypdf2_text_extract.keys = @ \ {"pypdf2_fulltext_by_page"},
                   !.pypdf2_text_extract.pypdf2_fulltext_by_page = <<>>]
    ELSE d

\* line 555
DropPypdf2(d) ==
    [d EXCEPT !.keys = @ \ {"pypdf2_text_extract"},
              !.pypdf2_text_extract = Pypdf2Blank]

\* mutant: an oversized record loses its whole pypdf2 extract at once
SizeGuardAtOnce(d) ==
    IF OverLimit(d)
    THEN IF "pypdf2_text_extract" \in d.keys
         THEN DropPypdf2(DropByPage(d))
         ELSE d
    ELSE d

\* lines 541-557
SizeGuard(d) ==
    IF OverLimit(d)
    THEN IF "pypdf2_text_extract" \in d.keys
         THEN IF OverLimit(DropByPage(d))
              THEN DropPypdf2(DropByPage(d))
              ELSE DropByPage(d)
         ELSE d
    ELSE d

\* mutant: the size check logs nothing
SizeWarningNone(d) == {}

\* line 543: logging.warning when the first measure is over the limit
SizeWarning(d) == IF OverLimit(d) THEN {"size warning"} ELSE {}

\* lines 538-557
Guard ==
    /\ pc = "guard"
    /\ dict_output' = SizeGuard(dict_output)
    /\ stages' = stages \cup SizeWarning(dict_output)
    /\ pc' = "persist"
    /\ UNCHANGED worker
    /\ UNCHANGED <<store, blob, run, dict_defined, flags, record_exists, record_count, entry_record,
                   txt_result, txt_result_length, txt_result_status, exc, writes,
                   attempts, calls, outcome>>
    /\ UNCHANGED retry

(***************************************************************************)
(* Writing the record: lines 566-572, and the handler: lines 579-597       *)
(***************************************************************************)
\* the output binding upserts the document by its id
Upsert(docs, doc) == {r \in docs : r.id # doc.id} \cup {doc}

\* cosmodocsout.set stores the document
Stored(doc, how) ==
    /\ store' = Upsert(store, doc)
    /\ writes' = Append(writes, doc)
    /\ attempts' = attempts + 1
    /\ pc' = "idle"
    /\ outcome' = how

\* lines 566-567
Persist ==
    /\ pc = "persist"
    /\ Stored(dict_output, "persisted")
    /\ worker' = NoWorker
    /\ UNCHANGED <<blob, run, dict_output, dict_defined, flags, record_exists,
                   record_count, entry_record, txt_result, txt_result_length, txt_result_status,
                   exc, calls, stages>>
    /\ UNCHANGED retry

\* lines 568-572: cosmodocsout.set raises, dict_output is deleted, the error re-raised
PersistFails ==
    /\ pc = "persist"
    /\ attempts' = attempts + 1
    /\ dict_defined' = FALSE
    /\ dict_output' = NoRecord
    /\ Raise("cosmos write failed")
    /\ UNCHANGED worker
    /\ UNCHANGED <<store, blob, run, flags, record_exists, record_count, entry_record, txt_result,
                   txt_result_length, txt_result_status, writes, calls, stages, outcome>>
    /\ UNCHANGED retry

\* mutant: the handler does not write the exception into the record
ErrorRecordNoException(defined, d, uid, inv, e) ==
    EnsureError(IF defined THEN d ELSE MinimalRecord(uid, inv))

\* lines 581-595: the record the handler writes
ErrorRecord(defined, d, uid, inv, e) ==
    SetError(IF defined THEN d ELSE MinimalRecord(uid, inv), "exception", e)

\* lines 579-597, the write of line 597 succeeds
Handler ==
    /\ pc = "handler"
    /\ dict_output' = ErrorRecord(dict_defined, dict_output, unique_id, invocation_id, exc)
    /\ dict_defined' = TRUE
    /\ Stored(dict_output', "error_recorded")
    /\ worker' = NoWorker
    /\ UNCHANGED <<blob, run, flags, record_exists, record_count, entry_record, txt_result,
                   txt_result_length, txt_result_status, exc, calls, stages>>
    /\ UNCHANGED retry

\* lines 579-597, the write of line 597 raises: the invocation fails
HandlerFails ==
    /\ pc = "handler"
    /\ dict_output' = ErrorRecord(dict_defined, dict_output, unique_id, invocation_id, exc)
    /\ dict_defined' = TRUE
    /\ attempts' = attempts + 1
    /\ pc' = "idle"
    /\ outcome' = "failed"
    /\ worker' = NoWorker
    /\ UNCHANGED <<store, blob, run, flags, record_exists, record_count, entry_record, txt_result,
                   txt_result_length, txt_result_status, exc, writes, calls, stages>>
    /\ UNCHANGED retry

Next ==
    \/ Trigger
    \/ Entry
    \/ ExtractText
    \/ ExtractPypdf2Only
    \/ ReadExisting
    \/ Classify
    \/ SummarizeShort
    \/ SummarizeLong
    \/ NoSummary
    \/ AbandonedWorker
    \/ Guard
    \/ Persist
    \/ PersistFails
    \/ Handler
    \/ HandlerFails

Spec == Init /\ [][Next]_vars


(***************************************************************************)
(* One invocation on a new .pdf, with pypdf2_text_extraction (lines         *)
(* 798-880) taken statement by statement: the thread and the caller         *)
(* interleave, and the thread goes on after the caller has returned.        *)
(***************************************************************************)
\* the invocation has reached line 697 inside text_extraction (line 252)
InitPypdf2 ==
    /\ store = {}
    /\ blob = [extension |-> ".pdf", archive |-> FALSE]
    /\ run = 1
    /\ pc = "extract"
    /\ dict_output = InitialRecord(1, 1, 1)
    /\ dict_defined = TRUE
    /\ flags = DefaultFlags(".pdf")
    /\ record_exists = FALSE
    /\ record_count = 0
    /\ entry_record = NoRecord
    /\ txt_result = <<>>
    /\ txt_result_length = Blank
    /\ txt_result_status = ""
    /\ exc = ""
    /\ writes = <<>>
    /\ attempts = 0
    /\ calls = <<>>
    /\ stages = {}
    /\ outcome = "running"
    /\ worker \in {Started(pdf) : pdf \in Pdfs}
    /\ retry = NoRetry

\* a step of the thread or of the caller: pypdf2_text_dict is one object, so
\* once line 255 has put it into dict_output a write of the thread shows there
ThreadStep(w) ==
    /\ worker' = w
    /\ dict_output' =
          IF pc # "extract" /\ Attached
          THEN [dict_output EXCEPT !.pypdf2_text_extract = w.pypdf2_text_dict]
          ELSE dict_output
    /\ UNCHANGED <<store, blob, run, pc, dict_defined, flags, record_exists,
                   record_count, entry_record, txt_result, txt_result_length,
                   txt_result_status, exc, writes, attempts, calls, stages, outcome>>
    /\ UNCHANGED retry

\* the thread runs until the invocation has serialized dict_output
WorkerRuns == pc \in {"extract", "classify", "summarize", "guard", "handler"}

\* lines 825-830
WorkerOpen ==
    /\ WorkerRuns /\ worker.wpc = "open"
    /\ ThreadStep(WorkerOpenStep(worker))

\* lines 832-837
WorkerPage ==
    /\ WorkerRuns /\ worker.wpc = "pages" /\ worker.k < Len(worker.pdf.pages)
    /\ ThreadStep(WorkerPageStep(worker))

\* line 838
WorkerCount ==
    /\ WorkerRuns /\ worker.wpc = "pages" /\ worker.k >= Len(worker.pdf.pages)
    /\ ThreadStep(WorkerCountStep(worker))

\* line 841
WorkerPut ==
    /\ WorkerRuns /\ worker.wpc = "put"
    /\ ThreadStep(WorkerPutStep(worker))

\* the thread ends, after line 841 or after line 847
WorkerExit ==
    /\ WorkerRuns /\ worker.wpc \in {"exiting", "raising"}
    /\ ThreadStep(WorkerExitStep(worker))

\* line 855
Join ==
    /\ pc = "extract" /\ worker.cpc = "join" /\ JoinReturns(worker)
    /\ ThreadStep([worker EXCEPT !.cpc = "queue"])

\* lines 857-860
ReadQueue ==
    /\ pc = "extract" /\ worker.cpc = "queue"
    /\ ThreadStep(ReadQueueStep(worker))

\* lines 863-866
CheckAlive ==
    /\ pc = "extract" /\ worker.cpc = "alive"
    /\ ThreadStep(CheckAliveStep(worker))

\* lines 869-873 and 880
CheckException ==
    /\ pc = "extract" /\ worker.cpc = "exception"
    /\ ThreadStep(CheckExceptionStep(worker))

\* lines 699, 252-255 and 291-299: text_extraction returns the dict with the
\* result of the primary extraction
ReturnToRun ==
    /\ pc = "extract" /\ worker.cpc = "returned"
    /\ \E r \in PrimaryResults :
          LET d1 == [dict_output EXCEPT
                        !.textextract_metadata.document_pages = 1,
                        !.textextract_metadata.keys = @ \cup {"document_pages"}]
          IN  FinishExtraction(SetPypdf2(d1, worker.pypdf2_text_dict),
                               r.text, r.status, {"text_extraction", "pypdf2"})
    /\ UNCHANGED worker
    /\ UNCHANGED <<store, blob, run, dict_defined, flags, record_exists,
                   record_count, entry_record, writes, attempts, calls, outcome>>
    /\ UNCHANGED retry

\* the steps of the thread
WorkerStep == WorkerOpen \/ WorkerPage \/ WorkerCount \/ WorkerPut \/ WorkerExit

\* the steps of the invocation
RunStep ==
    \/ Join
    \/ ReadQueue
    \/ CheckAlive
    \/ CheckException
    \/ ReturnToRun
    \/ Classify
    \/ SummarizeShort
    \/ SummarizeLong
    \/ NoSummary
    \/ Guard
    \/ Persist
    \/ PersistFails
    \/ Handler
    \/ HandlerFails

NextPypdf2 == WorkerStep \/ RunStep

SpecPypdf2 == InitPypdf2 /\ [][NextPypdf2]_vars


\* the steps of the invocation but the chunk loop
ShortStep ==
    \/ Join
    \/ ReadQueue
    \/ CheckAlive
    \/ CheckException
    \/ ReturnToRun
    \/ Classify
    \/ SummarizeShort
    \/ NoSummary
    \/ Guard
    \/ Persist
    \/ PersistFails
    \/ Handler
    \/ HandlerFails

\* the chunk loop of lines 423-497 is under way
ChunkLoopRuns ==
    /\ pc = "summarize"
    /\ ShouldSummarize
    /\ txt_result_length > SummaryLimit

\* the caller is always scheduled, and the chunk loop ends, since every
\* abstract_summary call returns or gives up (line 705); the thread is
\* scheduled too when the file is not slow, and on a slow file it may stop
\* anywhere and never go on
FairPypdf2 ==
    /\ SpecPypdf2
    /\ WF_vars(ShortStep)
    /\ []<>(~ChunkLoopRuns)
    /\ WF_vars(WorkerStep /\ ~worker.pdf.slow)

(***************************************************************************)
(* A call of text_extraction (lines 669-672) or abstract_summary (lines     *)
(* 705-708) through its decorator                                           *)
(*   @retry(reraise=True, stop=stop_after_delay(300),                       *)
(*          wait=wait_exponential(multiplier=1, min=.., max=..))            *)
(***************************************************************************)
\* stop_after_delay(300)
StopAfterDelay == 300

\* wait_exponential(multiplier=1, min=20, max=30) and (multiplier=1, min=30, max=45)
WaitMin(fn) == IF fn = "text_extraction" THEN 20 ELSE 30
WaitMax(fn) == IF fn = "text_extraction" THEN 30 ELSE 45

RECURSIVE Pow2(_)
Pow2(n) == IF n <= 0 THEN 1 ELSE 2 * Pow2(n - 1)

\* the wait after the attempt attempt_number: multiplier * 2 ** (attempt_number - 1),
\* kept within min and max
wait_exponential(fn, attempt_number) ==
    LET result == 1 * Pow2(attempt_number - 1)
        capped == IF result < WaitMax(fn) THEN result ELSE WaitMax(fn)
    IN  IF capped > WaitMin(fn) THEN capped ELSE WaitMin(fn)

\* the seconds one attempt of the decorated function can take
AttemptSeconds == {0, 40, 130}

\* what the service calls inside the decorated function can raise
ServiceErrors == {"HttpResponseError", "ServiceRequestError"}

\* mutant: without reraise the wrapper raises its own RetryError
GiveUpRetryError(last) == "RetryError"

\* reraise=True: the wrapper raises the exception of the last attempt
GiveUp(last) == last

\* the first attempt starts
Calling(fn) ==
    [fn |-> fn, rpc |-> "call", attempt_number |-> 1, seconds_since_start |-> 0,
     slept |-> 0, outcome |-> "", raised |-> "", value |-> ""]

InitRetry ==
    /\ store = {}
    /\ blob = [extension |-> ".pdf", archive |-> FALSE]
    /\ run = 0
    /\ pc = "idle"
    /\ dict_output = NoRecord
    /\ dict_defined = FALSE
    /\ flags = NoFlags
    /\ record_exists = FALSE
    /\ record_count = 0
    /\ entry_record = NoRecord
    /\ txt_result = <<>>
    /\ txt_result_length = Blank
    /\ txt_result_status = ""
    /\ exc = ""
    /\ writes = <<>>
    /\ attempts = 0
    /\ calls = <<>>
    /\ stages = {}
    /\ outcome = "none"
    /\ worker = NoWorker
    /\ retry \in {Calling(fn) : fn \in {"text_extraction", "abstract_summary"}}

RetryStep(r) ==
    /\ retry' = r
    /\ UNCHANGED <<store, blob, run, pc, dict_output, dict_defined, flags,
                   record_exists, record_count, entry_record, txt_result,
                   txt_result_length, txt_result_status, exc, writes, attempts,
                   calls, stages, outcome, worker>>

\* the decorated function raises: the wrapper gives up when the seconds since
\* the first attempt started have reached the delay, and sleeps otherwise
AttemptFails ==
    /\ retry.rpc = "call"
    /\ \E d \in AttemptSeconds, e \in ServiceErrors :
          LET t == retry.seconds_since_start + d
          IN  IF t >= StopAfterDelay
              THEN RetryStep([retry EXCEPT !.seconds_since_start = t,
                                           !.outcome = e,
                                           !.raised = GiveUp(e),
                                           !.rpc = "raised"])
              ELSE RetryStep([retry EXCEPT !.seconds_since_start = t,
                                           !.outcome = e,
                                           !.rpc = "sleep"])

\* the decorated function returns: the wrapper returns its value
AttemptReturns ==
    /\ retry.rpc = "call"
    /\ \E d \in AttemptSeconds :
          RetryStep([retry EXCEPT !.seconds_since_start = @ + d,
                                  !.outcome = "result",
                                  !.value = "result",
                                  !.rpc = "returned"])

\* the wrapper sleeps, then calls the decorated function again
Sleep ==
    /\ retry.rpc = "sleep"
    /\ LET w == wait_exponential(retry.fn, retry.attempt_number)
       IN  RetryStep([retry EXCEPT !.slept = w,
                                   !.seconds_since_start = @ + w,
                                   !.attempt_number = @ + 1,
                                   !.rpc = "call"])

NextRetry == AttemptFails \/ AttemptReturns \/ Sleep

SpecRetry == InitRetry /\ [][NextRetry]_vars

(***************************************************************************)
(* Properties.                                                             *)
(***************************************************************************)
\* the invocation has returned or failed
Finished == pc = "idle" /\ outcome \notin {"none", "running"}

\* the last document stored by this invocation
LastWrite == writes[Len(writes)]

\* C1: with exactly one record and none of the four flags set, the run executes
\* no extraction, classification or summarization stage and writes nothing: the
\* stored record, record_version included, is the one read at entry.
C1_NoOpShortCircuit ==
    (/\ pc # "entry"
     /\ record_count = 1
     /\ ~flags.text_missing /\ ~flags.summary_missing
     /\ ~flags.filemarkings_missing /\ ~flags.pypdf2_missing)
    => /\ pc = "idle"
       /\ outcome = "noop"
       /\ stages = {}
       /\ calls = <<>>
       /\ attempts = 0
       /\ writes = <<>>
       /\ store = {entry_record}

C1_Witness ==
    /\ outcome = "noop"
    /\ record_count = 1
    /\ entry_record.record_version >= 1
    /\ store = {entry_record}

\* C2: a run that completes its stages and stores the record writes
\* record_version 1 for a new file, the version read at entry plus one for an
\* existing record, and the invocation id of the run.
C2_VersionIncrement ==
    outcome = "persisted"
    => /\ "record_version" \in LastWrite.keys
       /\ LastWrite.record_version =
             IF record_count = 1 THEN entry_record.record_version + 1 ELSE 1
       /\ LastWrite.current_version_invocation_id = invocation_id
       /\ LastWrite \in store

C2_Witness ==
    /\ outcome = "persisted"
    /\ record_count = 1
    /\ entry_record.record_version = 2
    /\ LastWrite.record_version = 3

\* C3 as stated: with more than one record for the file name the run ends by
\* raising DuplicateRecordError to the caller, and writes nothing.
C3_DuplicateRaises ==
    (Finished /\ record_count > 1)
    => /\ outcome = "failed"
       /\ exc = "DuplicateRecordError"
       /\ attempts = 0

\* C3 amended: with more than one record for the file name the run logs the
\* error and returns normally: no exception, no stage, no write.
C3_DuplicateReturns ==
    (pc # "entry" /\ record_count > 1)
    => /\ pc = "idle"
       /\ outcome = "duplicate"
       /\ exc = ""
       /\ stages = {}
       /\ calls = <<>>
       /\ attempts = 0
       /\ writes = <<>>
       /\ Cardinality(store) = record_count

C3_Witness ==
    /\ outcome = "duplicate"
    /\ record_count = 2
    /\ Cardinality(store) = 2

\* the existing record has error entries of an earlier run, and text or summary
\* is missing
MustArchive ==
    /\ "error" \in entry_record.keys
    /\ entry_record.error # {}
    /\ (flags.text_missing \/ flags.summary_missing)

\* C4: before any stage runs (and on the short circuit), the record of version v
\* holds error_archive_v{v} equal to the old error map and no live error when
\* the old map is non-empty and text or summary is missing; otherwise no
\* archive key is created and the live error map is left as it was.
C4_ErrorArchival ==
    (/\ record_count = 1
     /\ "record_version" \in entry_record.keys
     /\ pc = "extract" \/ outcome = "noop")
    => IF MustArchive
       THEN /\ <<entry_record.record_version, entry_record.error>>
                   \in dict_output.error_archive
            /\ "error" \notin dict_output.keys
            /\ dict_output.error = {}
            /\ \A a \in entry_record.error_archive : a \in dict_output.error_archive
       ELSE /\ dict_output.error_archive = entry_record.error_archive
            /\ dict_output.error = entry_record.error
            /\ ("error" \in dict_output.keys) = ("error" \in entry_record.keys)

C4_Witness ==
    /\ pc = "extract"
    /\ record_count = 1
    /\ MustArchive
    /\ entry_record.record_version = 2
    /\ entry_record.error_archive # {}
    /\ Cardinality(dict_output.error_archive) = 2

\* C5: every error entry of the record read at entry is, with its value, in the
\* record the run stores: in the live error map or under an archive key.
C5_ErrorsNeverLost ==
    (Finished /\ record_count = 1 /\ writes # <<>>)
    => /\ \A p \in entry_record.error :
             \/ p \in LastWrite.error
             \/ \E a \in LastWrite.error_archive : p \in a[2]
       /\ \A a \in entry_record.error_archive : a \in LastWrite.error_archive

\* C6: an invocation that went on to process the file (it did not stop at the
\* duplicate check or the short circuit) ends with a record stored by it.
C6_NeverFailsOpen ==
    (Finished /\ outcome \in {"persisted", "error_recorded", "failed"})
    => /\ writes # <<>>
       /\ LastWrite \in store

\* the keys of the record the handler builds from nothing, with its error key
MinimalKeys ==
    {"id", "filename", "filepath", "filetype", "textextract_metadata",
     "summarization_metadata", "timestamps", "current_version_invocation_id", "error"}

\* C7: when the write of the full record fails, a second write is issued, of a
\* minimal record with id, filename, filepath, filetype and error.exception
\* holding the description of the write failure.
C7_FallbackRecord ==
    (Finished /\ exc = "cosmos write failed")
    => /\ attempts = 2
       /\ dict_output.keys = MinimalKeys
       /\ dict_output.error = {<<"exception", "cosmos write failed">>}
       /\ outcome = "error_recorded" => (writes = <<dict_output>> /\ dict_output \in store)
       /\ outcome \in {"error_recorded", "failed"}

C7_Witness ==
    /\ Finished
    /\ exc = "cosmos write failed"
    /\ outcome = "error_recorded"
    /\ record_count = 1
    /\ LastWrite \in store

\* C8: every record a run writes for a file name that had exactly one record
\* carries the id of that record.
C8_IdImmutable ==
    record_count = 1 => \A i \in 1..Len(writes) : writes[i].id = entry_record.id

\* C9: filemarkings_missing is true if the primary text is missing, or the
\* record has no filemarkings field, or that field is empty, and false otherwise.
C9_FilemarkingsFlag ==
    (record_count = 1 /\ pc # "entry")
    => flags.filemarkings_missing =
          \/ "fulltextextract" \notin entry_record.keys
          \/ Len(entry_record.fulltextextract) = 0
          \/ "filemarkings" \notin entry_record.keys
          \/ ~entry_record.filemarkings.isdict

\* C10: text_missing is true exactly when fulltextextract is absent or empty,
\* summary_missing exactly when abstractsummary is absent or empty, each
\* whatever the other is.
C10_TextAndSummaryFlags ==
    (record_count = 1 /\ pc # "entry")
    => /\ flags.text_missing =
             \/ "fulltextextract" \notin entry_record.keys
             \/ Len(entry_record.fulltextextract) = 0
       /\ flags.summary_missing =
             \/ "abstractsummary" \notin entry_record.keys
             \/ Len(entry_record.abstractsummary) = 0

C10_Witness ==
    /\ record_count = 1
    /\ pc = "extract"
    /\ ~flags.text_missing
    /\ flags.summary_missing
    /\ Len(entry_record.fulltextextract) > 0
    /\ "abstractsummary" \in entry_record.keys



(***************************************************************************)
(* Summarization stage                                                     *)
(***************************************************************************)
\* C11: abstract_summary is called in a run only when summary_missing is set,
\* the status of the primary extraction is 'succeeded' and the stripped primary
\* text is not empty; a step taken in any other situation issues no call.
C11_SummarizeOnlyWhenDue ==
    [][Len(calls') > Len(calls) =>
          /\ flags.summary_missing
          /\ txt_result_status = "succeeded"
          /\ Len(Strip(txt_result)) > 0]_vars

\* a run that called the service and went on to the size check
C11_Witness ==
    /\ pc = "guard"
    /\ calls # <<>>
    /\ flags.summary_missing
    /\ txt_result_status = "succeeded"

\* a run that stored its record without a summary and without calling the service
SummarySkipped ==
    /\ outcome = "persisted"
    /\ flags.summary_missing
    /\ calls = <<>>

\* C12 as stated: whenever a summary is missing and summarization is skipped, the
\* stored record carries an error entry that tells why, in the empty-text case
\* as well as in the failed-extraction case.
C12_SkipRecordsError ==
    SummarySkipped =>
        /\ "error" \in LastWrite.keys
        /\ LastWrite.error # {}

\* C12 (amended): whenever a summary is missing and summarization is skipped, the
\* stored record tells why: after a succeeded extraction with an empty stripped
\* text its fulltextextract is 'No extractable text found' and its error map has
\* no text_extraction_status; after an extraction whose status is not
\* 'succeeded' error.text_extraction_status holds that status.
C12_SkipReasonRecorded ==
    SummarySkipped =>
        IF txt_result_status = "succeeded"
        THEN /\ LastWrite.fulltextextract = NoExtractableText
             /\ ~DictHas(LastWrite.error, "text_extraction_status")
        ELSE /\ "error" \in LastWrite.keys
             /\ <<"text_extraction_status", txt_result_status>> \in LastWrite.error

\* a succeeded extraction with nothing but white space was stored without summary
C12_Witness ==
    /\ SummarySkipped
    /\ txt_result_status = "succeeded"
    /\ Len(Strip(txt_result)) = 0
    /\ LastWrite.abstractsummary = <<>>

(***************************************************************************)
(* Long text path: the chunks                                              *)
(***************************************************************************)
\* the chunk loop of this run has ended without an exception
LongPathDone ==
    /\ pc = "guard"
    /\ calls # <<>>
    /\ txt_result_length > SummaryLimit

RECURSIVE Documents(_)
\* the inputs of the calls, concatenated in the order of the calls
Documents(cs) ==
    IF cs = <<>> THEN <<>> ELSE Head(cs).document \o Documents(Tail(cs))

\* C13: for a text longer than the limit the chunks submitted, concatenated in
\* order, are the original text, and no text remains when the loop stops.
C13_ChunksReconstruct ==
    LongPathDone =>
        /\ Documents(calls) = dict_output.fulltextextract
        /\ txt_result = <<>>

\* C14: for a text longer than the limit every chunk submitted has at most
\* SummaryLimit characters, also when the leading window has no line end.
C14_ChunkWithinLimit ==
    LongPathDone =>
        \A i \in 1..Len(calls) : Len(calls[i].document) <= SummaryLimit

(***************************************************************************)
(* Short text path                                                         *)
(***************************************************************************)
\* C15: with a recorded text length of at most SummaryLimit the step that ends
\* the summarization stage makes exactly one call, its input is the whole primary text, no entry
\* of abstractsummary_parts is created, and when the call succeeds its summary
\* is stored as abstractsummary with text_input_length and summary_length.
C15_ShortPath ==
    [][(/\ pc = "summarize"
        /\ pc' # "summarize"
        /\ flags.summary_missing
        /\ txt_result_status = "succeeded"
        /\ Len(Strip(txt_result)) > 0
        /\ txt_result_length <= SummaryLimit) =>
          /\ calls = <<>>
          /\ Len(calls') = 1
          /\ calls'[1].document = txt_result
          /\ dict_output'.abstractsummary_parts = dict_output.abstractsummary_parts
          /\ LET res == calls'[1].result IN
                (~res.raised /\ ~res.is_error) =>
                    /\ pc' = "guard"
                    /\ "abstractsummary" \in dict_output'.keys
                    /\ dict_output'.abstractsummary = res.text
                    /\ <<"text_input_length", Len(txt_result)>>
                           \in dict_output'.summarization_metadata
                    /\ <<"summary_length", Len(res.text)>>
                           \in dict_output'.summarization_metadata]_vars

\* the single call of the short path succeeded and its summary is in the record
C15_Witness ==
    /\ pc = "guard"
    /\ txt_result_length <= SummaryLimit
    /\ Len(calls) = 1
    /\ calls[1].document = ShortText
    /\ ~calls[1].result.is_error
    /\ dict_output.abstractsummary = calls[1].result.text
    /\ dict_output.abstractsummary_parts = {}

\* the chunk loop of this run has run: to its end, or until abstract_summary
\* re-raised
LongPathRan ==
    /\ calls # <<>>
    /\ txt_result_length > SummaryLimit
    /\ \/ pc = "guard"
       \/ pc = "handler" /\ exc = "abstract_summary failed"

\* the number of iterations of the chunk loop of this run (line 425)
Iterations == CeilDiv(Len(dict_output.fulltextextract), SummaryLimit)

\* C16: in the long text path the code and the message of a chunk call that
\* returned an error result are recorded under keys that carry the part index
\* of that chunk, and the chunk after it is still submitted: error results
\* never shorten the loop.
C16_ChunkErrorContinues ==
    LongPathRan =>
        /\ \A i \in 1..Len(calls) :
              calls[i].result.is_error =>
                  /\ <<SummaryPart(i - 1) \o "_error_code", calls[i].result.code>>
                         \in dict_output.error
                  /\ <<SummaryPart(i - 1) \o "_error_message", calls[i].result.message>>
                         \in dict_output.error
                  /\ i < Iterations => Len(calls) > i
        /\ pc = "guard" => Len(calls) = Iterations

\* the first chunk failed and the second chunk was submitted and summarized
C16_Witness ==
    /\ LongPathRan
    /\ pc = "guard"
    /\ Len(calls) = 2
    /\ calls[1].result.is_error
    /\ ~calls[2].result.is_error
    /\ <<"summarypart00_error_code", "InvalidRequest">> \in dict_output.error

\* the summaries of the calls that succeeded, in the order of the calls
Successes(cs) == SelectSeq(cs, LAMBDA c : ~c.result.raised /\ ~c.result.is_error)

RECURSIVE JoinSummaries(_)
\* " ".join of the summaries of a sequence of successful calls
JoinSummaries(cs) ==
    IF cs = <<>> THEN <<>>
    ELSE IF Len(cs) = 1 THEN cs[1].result.text
    ELSE cs[1].result.text \o <<" ">> \o JoinSummaries(Tail(cs))

\* C17: in the long text path the abstractsummary written is the summaries of
\* the successful chunks in the order of their index, one space between two of
\* them, nothing before the first and nothing after the last.
C17_FinalSummaryJoined ==
    (LongPathDone /\ Successes(calls) # <<>>) =>
        dict_output.abstractsummary = JoinSummaries(Successes(calls))

\* the keys of the three timestamps and of the two lengths of one part
PartTimestamps(part) ==
    {part \o "/" \o part \o "_start", part \o "/" \o part \o "_finish",
     part \o "/" \o part \o "_duration"}

PartLengths(part) == {part \o "/text_input_length", part \o "/summary_length"}

\* C18 as stated: every chunk attempted in the long text path, failed ones
\* included, has under its part index its start, finish and duration timestamps
\* and its input and output lengths.
C18_EveryPartFullyRecorded ==
    LongPathRan =>
        \A i \in 1..Len(calls) :
            LET part == SummaryPart(i - 1) IN
            /\ PartTimestamps(part) \subseteq dict_output.timestamps
            /\ \A k \in PartLengths(part) : DictHas(dict_output.summarization_metadata, k)

\* C19: when the chunk loop has ended and the concatenated summary is empty
\* after stripping, the record gets error.final_summary_error, a key of its own
\* next to the keys of the parts, and abstractsummary stays empty; when the
\* concatenated summary is not empty there is no final_summary_error.
C19_FinalSummaryError ==
    LongPathDone =>
        IF Strip(JoinSummaries(Successes(calls))) = <<>>
        THEN /\ "error" \in dict_output.keys
             /\ <<"final_summary_error",
                   "Something went wrong creating summary of long document">>
                    \in dict_output.error
             /\ \A i \in 1..Len(calls) :
                    /\ "final_summary_error" # SummaryPart(i - 1) \o "_error_code"
                    /\ "final_summary_error" # SummaryPart(i - 1) \o "_error_message"
             /\ dict_output.abstractsummary = <<>>
        ELSE /\ ~DictHas(dict_output.error, "final_summary_error")
             /\ dict_output.abstractsummary # <<>>

\* every chunk of a long text failed
C19_Witness ==
    /\ LongPathDone
    /\ Len(calls) = 2
    /\ \A i \in 1..Len(calls) : calls[i].result.is_error
    /\ DictHas(dict_output.error, "final_summary_error")
    /\ DictHas(dict_output.error, "summarypart01_error_code")

(***************************************************************************)
(* Classification                                                          *)
(***************************************************************************)
\* the term matches on some line of the text
Matches(term, text) ==
    \E i \in 1..Len(SplitLines(text)) : Search(term, SplitLines(text)[i])

\* a shorter and a longer term that contains it both match the text
BothMatch(text) == Matches(<<"S">>, text) /\ Matches(<<"T", " ", "S">>, text)

\* the classification section of this run has just run
Classified ==
    /\ pc = "summarize"
    /\ flags.filemarkings_missing
    /\ "classification" \in stages

\* the text of the PyPDF2 extract when the section falls back on it (line 336)
FallbackText ==
    IF /\ file_extension = ".pdf"
       /\ ~Matches(<<"S">>, txt_result)
       /\ ~Matches(<<"N">>, txt_result)
       /\ ~Matches(<<"T", " ", "S">>, txt_result)
       /\ "pypdf2_text_extract" \in dict_output.keys
       /\ dict_output.pypdf2_text_extract.isdict
    THEN dict_output.pypdf2_text_extract.pypdf2_fulltext
    ELSE <<>>

\* C20: when the shorter term "S" and the longer term "T S" that contains it
\* both match the text that is classified, the classification stored is the
\* longer term, in whatever order the reference file lists the terms.
C20_LongerTermWins ==
    Classified =>
        /\ BothMatch(txt_result) =>
              /\ dict_output.filemarkings.isdict
              /\ dict_output.filemarkings.classification = <<"T", " ", "S">>
        /\ BothMatch(FallbackText) =>
              /\ dict_output.filemarkings.isdict
              /\ dict_output.filemarkings.classification = <<"T", " ", "S">>

\* the shorter term matches on an earlier line than the longer one, and the
\* longer one was stored with its line
C20_Witness ==
    /\ Classified
    /\ FallbackText = <<"S", "\n", "T", " ", "S">>
    /\ dict_output.filemarkings = Markings(<<"T", " ", "S">>, <<"T", " ", "S">>)

\* the first line of the text, in text order, that the term matches
FirstMatchingLine(term, text) ==
    LET lines == SplitLines(text)
        i == CHOOSE h \in 1..Len(lines) :
                 /\ Search(term, lines[h])
                 /\ \A g \in 1..(h - 1) : ~Search(term, lines[g])
    IN  lines[i]

\* some term of the reference file matches the text
AnyMatch(text) ==
    Matches(<<"T", " ", "S">>, text) \/ Matches(<<"S">>, text) \/ Matches(<<"N">>, text)

\* the text whose match, if any, the classification section stores
ClassifiedText == IF AnyMatch(txt_result) THEN txt_result ELSE FallbackText

\* C21: extract_classification returns the first term of the length-sorted
\* list that matches a line, with the first line in text order that matches
\* that term, even when an earlier line matches a later term; when no term
\* matches a line the result is empty and nothing is raised.
C21_FirstMatchWins ==
    Classified =>
        IF Matches(<<"T", " ", "S">>, ClassifiedText)
        THEN dict_output.filemarkings =
                 Markings(<<"T", " ", "S">>,
                          FirstMatchingLine(<<"T", " ", "S">>, ClassifiedText))
        ELSE IF Matches(<<"S">>, ClassifiedText) /\ ~Matches(<<"N">>, ClassifiedText)
        THEN dict_output.filemarkings =
                 Markings(<<"S">>, FirstMatchingLine(<<"S">>, ClassifiedText))
        ELSE ~AnyMatch(ClassifiedText) =>
                 (~dict_output.filemarkings.isdict /\ exc = "")

\* the first line matches the later term "S" only; the term "T S" and the
\* second line were returned
C21_Witness ==
    /\ Classified
    /\ Len(SplitLines(ClassifiedText)) = 2
    /\ Search(<<"S">>, SplitLines(ClassifiedText)[1])
    /\ ~Search(<<"T", " ", "S">>, SplitLines(ClassifiedText)[1])
    /\ dict_output.filemarkings.classification = <<"T", " ", "S">>
    /\ dict_output.filemarkings.full_document_classification_line
          = SplitLines(ClassifiedText)[2]

\* C22: the classification section runs the matcher on the primary text first;
\* it runs it on the pypdf2 full text only when the primary text gave no match
\* and that text is not empty, and a match found in the primary text is the one
\* stored.
C22_PrimaryThenSecondary ==
    Classified =>
        /\ AnyMatch(txt_result) =>
              /\ "classification of pypdf2 text" \notin stages
              /\ dict_output.filemarkings.isdict
              /\ Search(dict_output.filemarkings.classification, 
                        dict_output.filemarkings.full_document_classification_line)
              /\ \E i \in 1..Len(SplitLines(txt_result)) :
                    SplitLines(txt_result)[i]
                       = dict_output.filemarkings.full_document_classification_line
        /\ "classification of pypdf2 text" \in stages =>
              /\ ~AnyMatch(txt_result)
              /\ file_extension = ".pdf"
              /\ dict_output.pypdf2_text_extract.isdict
              /\ Len(dict_output.pypdf2_text_extract.pypdf2_fulltext) > 0
        /\ (dict_output.filemarkings.isdict /\ ~AnyMatch(txt_result)) =>
              "classification of pypdf2 text" \in stages

\* the primary text matched and the pypdf2 text, which has a match too, was
\* not looked at
C22_Witness ==
    /\ Classified
    /\ AnyMatch(txt_result)
    /\ file_extension = ".pdf"
    /\ dict_output.pypdf2_text_extract.isdict
    /\ AnyMatch(dict_output.pypdf2_text_extract.pypdf2_fulltext)
    /\ "classification of pypdf2 text" \notin stages

(***************************************************************************)
(* pypdf2_text_extraction under every interleaving (SpecPypdf2)            *)
(***************************************************************************)
\* the notes of a returned dict
Notes(d) == d.keys \cap {"pypdf2_timeout_error", "pypdf2_error"}

\* the call has returned to text_extraction
Returned == worker.cpc = "returned"

\* C23: under every interleaving of the thread and the caller, the dict
\* pypdf2_text_extraction returns is exactly one of: the text of the thread
\* with no note; 'No text extracted' with the timeout note; 'No text
\* extracted' with the error note. Never a text with the timeout note, never
\* 'No text extracted' with no note.
C23_ExactlyOneOutcome ==
    Returned =>
        \/ /\ worker.returned.pypdf2_fulltext = Strip(WorkerFullText(worker.pdf.pages))
           /\ Notes(worker.returned) = {}
        \/ /\ worker.returned.pypdf2_fulltext = NoTextExtracted
           /\ Notes(worker.returned) = {"pypdf2_timeout_error"}
        \/ /\ worker.returned.pypdf2_fulltext = NoTextExtracted
           /\ Notes(worker.returned) = {"pypdf2_error"}

\* C24: after pypdf2_text_extraction has returned on the timeout, the dict it
\* returned (page count, pages, full text), which is now
\* dict_output['pypdf2_text_extract'], does not change while the run
\* classifies, summarizes and serializes.
C24_ReturnedDictFrozen ==
    (/\ pc \in {"classify", "summarize", "guard"}
     /\ Returned
     /\ "pypdf2_timeout_error" \in worker.returned.keys
     /\ Attached)
    => dict_output.pypdf2_text_extract = worker.returned

\* C25: when the thread never completes (pdf_extraction_worker never gets
\* past line 841 or line 847), pypdf2_text_extraction still returns, with
\* 'No text extracted' and the timeout note, and the run goes on to the write
\* of its record.
C25_TimeoutReturns ==
    /\ []((Returned /\ worker.wpc \in {"open", "pages", "put", "raising"}) =>
            (/\ "pypdf2_timeout_error" \in worker.returned.keys
             /\ worker.returned.pypdf2_fulltext = NoTextExtracted))
    /\ ((pc = "extract" /\ worker.pdf.slow) ~> (attempts > 0))

\* the thread has not taken a single step and the record is about to be
\* written with the timeout note
C25_Witness ==
    /\ pc = "persist"
    /\ worker.wpc = "open"
    /\ Attached
    /\ "pypdf2_timeout_error" \in dict_output.pypdf2_text_extract.keys

(***************************************************************************)
(* The retry wrapper (SpecRetry)                                           *)
(***************************************************************************)
\* C26: a call that keeps failing is tried again, after a wait within the
\* configured range, as long as less than 300 seconds have passed since the
\* first attempt started; once they have passed, the wrapper raises the error
\* of the last attempt as it is, and returns no value.
C26_RetryThenReraise ==
    /\ retry.rpc = "sleep" =>
          (retry.seconds_since_start < StopAfterDelay /\ retry.outcome \in ServiceErrors)
    /\ (retry.rpc = "call" /\ retry.attempt_number > 1) =>
          (WaitMin(retry.fn) <= retry.slept /\ retry.slept <= WaitMax(retry.fn))
    /\ retry.rpc = "raised" =>
          /\ retry.seconds_since_start >= StopAfterDelay
          /\ retry.outcome \in ServiceErrors
          /\ retry.raised = retry.outcome
          /\ retry.value = ""
    /\ retry.rpc = "returned" => (retry.raised = "" /\ retry.outcome = "result")

\* the wrapper has given up after several attempts
C26_Witness ==
    /\ retry.rpc = "raised"
    /\ retry.attempt_number > 6
    /\ retry.slept = WaitMax(retry.fn)

(***************************************************************************)
(* The size guard                                                          *)
(***************************************************************************)
\* the step of lines 538-557
GuardStep == pc = "guard" /\ pc' = "persist"

HasPypdf2(d) == "pypdf2_text_extract" \in d.keys

HasPages(d) ==
    HasPypdf2(d) /\ "pypdf2_fulltext_by_page" \in d.pypdf2_text_extract.keys

\* the record but its pypdf2 extract
Rest(d) ==
    [d EXCEPT !.pypdf2_text_extract = Pypdf2Blank,
              !.keys = @ \ {"pypdf2_text_extract"}]

\* C27: the size guard degrades in order and measures again after the first
\* step: an oversized record first loses only pypdf2_fulltext_by_page; when it
\* is then within the limit, the pypdf2 full text and page count stay; the
\* whole pypdf2 extract goes only when the record is still over the limit
\* without the pages.
C27_StrictOrder ==
    [][GuardStep =>
        LET d == dict_output
            e == dict_output'
        IN  /\ (OverLimit(d) /\ HasPypdf2(d) /\ ~OverLimit(DropByPage(d))) =>
                  /\ HasPypdf2(e)
                  /\ ~HasPages(e)
                  /\ e.pypdf2_text_extract.keys =
                        d.pypdf2_text_extract.keys \ {"pypdf2_fulltext_by_page"}
                  /\ e.pypdf2_text_extract.pypdf2_fulltext =
                        d.pypdf2_text_extract.pypdf2_fulltext
                  /\ e.pypdf2_text_extract.pypdf2_page_count =
                        d.pypdf2_text_extract.pypdf2_page_count
            /\ (OverLimit(d) /\ HasPypdf2(d) /\ OverLimit(DropByPage(d))) =>
                  ~HasPypdf2(e)
            /\ (HasPypdf2(d) /\ ~HasPypdf2(e)) =>
                  (OverLimit(d) /\ OverLimit(DropByPage(d)))
            /\ ~OverLimit(d) => e = d]_vars

\* the guard has stopped after its first step: the pages are gone, the full
\* text of the pypdf2 extract is still there
C27_Witness ==
    /\ pc = "persist"
    /\ "size warning" \in stages
    /\ HasPypdf2(dict_output)
    /\ ~HasPages(dict_output)
    /\ "pypdf2_fulltext" \in dict_output.pypdf2_text_extract.keys
    /\ Len(dict_output.pypdf2_text_extract.pypdf2_fulltext) > 0

\* C28: the size guard changes nothing in the record but the pypdf2 extract;
\* a record that is still over the limit without the pypdf2 extract, or that
\* has none, goes on to the write as it is, and a warning is logged.
C28_OnlySecondaryChanges ==
    [][GuardStep =>
        LET d == dict_output
            e == dict_output'
        IN  /\ Rest(e) = Rest(d)
            /\ (OverLimit(d) /\ ~HasPypdf2(d)) => e = d
            /\ (OverLimit(d) /\ OverLimit(Rest(d))) =>
                  /\ OverLimit(e)
                  /\ "size warning" \in stages']_vars

\* an oversized record has been stored, after the warning
C28_Witness ==
    /\ pc = "idle"
    /\ outcome = "persisted"
    /\ "size warning" \in stages
    /\ writes # <<>>
    /\ OverLimit(writes[Len(writes)])
    /\ writes[Len(writes)].fulltextextract = BigText

\* C29: the size guard removes something exactly when the serialized record
\* is larger than the limit: a record of at most SizeLimit bytes is kept whole,
\* a larger one with a pypdf2 extract is degraded.
C29_ExactThreshold ==
    [][(GuardStep /\ HasPypdf2(dict_output)) =>
        ((dict_output' # dict_output) <=> (JsonSize(dict_output) > SizeLimit))]_vars

(***************************************************************************)
(* Progress of the chunk loop                                              *)
(***************************************************************************)
\* C30: in the long text path every iteration submits a non-empty chunk and
\* leaves a strictly shorter text, so the text left when the loop has ended
\* is empty.
C30_ChunksMakeProgress ==
    /\ LongPathRan => \A i \in 1..Len(calls) : calls[i].document # <<>>
    /\ LongPathDone => txt_result = <<>>

(***************************************************************************)
(* Runs on the record of an earlier run                                    *)
(***************************************************************************)
\* the record read at entry holds a text of a succeeded primary extraction
\* and a summary
TextAndSummaryStored ==
    /\ record_exists
    /\ record_count = 1
    /\ "record_version" \in entry_record.keys
    /\ "fulltextextract" \in entry_record.keys
    /\ Len(entry_record.fulltextextract) > 0
    /\ entry_record.textextract_metadata.fulltextextract_status = "succeeded"
    /\ "abstractsummary" \in entry_record.keys
    /\ Len(entry_record.abstractsummary) > 0

\* C31: a run that finds the record of a run whose primary extraction
\* succeeded with a non-empty text and whose summarization gave a non-empty
\* summary returns at the short-circuit: no stage, no write, whatever the
\* pypdf2 extraction returned and whatever the size check deleted.
C31_ReconciliationConverges ==
    TextAndSummaryStored =>
        /\ outcome = "noop"
        /\ stages = {}
        /\ attempts = 0

\* C32: abstract_summary is never called with the placeholder
\* 'No extractable text found' that an earlier run stored in fulltextextract.
C32_PlaceholderNeverSummarized ==
    \A i \in 1..Len(calls) : calls[i].document # NoExtractableText

\* the record d carries the error entry text_extraction_status
HasStatusError(d) ==
    /\ "error" \in d.keys
    /\ DictHas(d.error, "text_extraction_status")

\* C33: a step of the summarization stage adds the error entry
\* text_extraction_status to the record only when the status of the primary
\* extraction is not 'succeeded'; with a succeeded extraction and a non-empty
\* text, whatever else was missing, it adds no such entry.
C33_StatusErrorOnlyOnFailure ==
    [][(/\ pc = "summarize"
        /\ HasStatusError(dict_output')
        /\ ~HasStatusError(dict_output))
       => txt_result_status # "succeeded"]_vars

\* C34: every stored record, the ones written by the handler included, holds
\* a record_version of at least 1, and no run fails on reading the version of
\* the record it finds.
C34_VersionInEveryRecord ==
    /\ \A r \in store : "record_version" \in r.keys /\ r.record_version >= 1
    /\ exc # "'record_version'"

(***************************************************************************)
(* The text of the record and the text the chunk loop works on             *)
(***************************************************************************)
\* this run has entered the chunk loop
LongRun ==
    /\ calls # <<>>
    /\ txt_result_length > SummaryLimit

\* the text the chunk loop started from: what it has submitted so far and
\* what it has left
WholeText == Documents(calls) \o txt_result

\* C35: the chunk loop works on its own copy of the text: in a run that took
\* the long text path the fulltextextract of dict_output, and of the record
\* the run stores, is the complete primary text, as extracted or as read from
\* the record found, however many chunks were cut and whichever calls failed.
C35_RecordTextUntouched ==
    LongRun =>
        /\ (dict_defined /\ "fulltextextract" \in dict_output.keys) =>
               /\ dict_output.fulltextextract = WholeText
               /\ Len(dict_output.fulltextextract) = txt_result_length
               /\ ~flags.text_missing =>
                      dict_output.fulltextextract = entry_record.fulltextextract
        /\ (writes # <<>> /\ "fulltextextract" \in LastWrite.keys) =>
               LastWrite.fulltextextract = WholeText

\* a stored long text run of two chunks, the first of them failed: the loop
\* has cut its copy down and the record holds the text in full
C35_Witness ==
    /\ LongRun
    /\ outcome = "persisted"
    /\ Len(calls) = 2
    /\ calls[1].result.is_error
    /\ txt_result # WholeText
    /\ LastWrite.fulltextextract = LongText
    /\ LastWrite \in store

=========================================================================
